---- MODULE Spec2Model ----
(***************************************************************************)
(* pg_seldump: the dump writer (seldump/dumpwriter.py), the writer test    *)
(* double (tests/testwriter.py) and the dump rules (seldump/dumprule.py).  *)
(*                                                                         *)
(* Spec      : DumpWriter driven by an arbitrary caller.                   *)
(* SpecTest  : TestWriter driven by an arbitrary caller.                   *)
(* SpecConfig: DumpRule.from_config applied to a configuration.            *)
(* SpecRules : a RuleSet built by from_config, score reads and resolution. *)
(* SpecScores: score reads on rules of every specificity.                  *)
(* SpecTime  : pretty_timedelta applied to a whole-second duration.        *)
(***************************************************************************)
EXTENDS Integers, Sequences, FiniteSets, TLC

VARIABLES
    \* ---- DumpWriter (seldump/dumpwriter.py) ----
    out,            \* what outfile has received: a sequence of write tokens
    pos,            \* outfile.tell()
    seekable,       \* outfile.seekable()
    isStdout,       \* outfile is sys.stdout
    fileClosed,     \* outfile.close() has been called
    start_time,     \* self._start_time
    copy_start_pos, \* self._copy_start_pos
    copy_size,      \* self._copy_size
    copies,         \* number of reader.copy calls made so far
    calls,          \* number of calls made on the writer (history)
    began,          \* begin_dump has been called (history)
    ended,          \* end_dump has been called (history)
    lastCall,       \* the last call made on the writer and its outcome (history)
    \* ---- TestWriter (tests/testwriter.py) ----
    dump_started,   \* self.dump_started
    dump_ended,     \* self.dump_ended
    closed,         \* self.closed
    dumped,         \* self.dumped
    tcalls,         \* number of calls made on the test writer (history)
    tlog,           \* the calls that succeeded since the last reset (history)
    tlast,          \* the last call made on the test writer (history)
    \* ---- DumpRule.from_config (seldump/dumprule.py) ----
    cfg,            \* the configuration handed to from_config
    isdict,         \* isinstance(cfg, dict)
    built,          \* what from_config(cfg) returned or raised
    query,          \* the last read of score or call of match on the rule built
    prev,           \* the rule built, and its score, before unknown keys were added
    \* ---- a RuleSet and its use ----
    rules,          \* the rules, in declaration order
    cache,          \* the lru_cache(maxsize=1) of DumpRule.score
    computed,       \* how many times the body of score ran, per rule (history)
    scores,         \* the last value read from rule.score, per rule (history)
    resolved,       \* the last object resolved and the rule chosen for it
    queries,        \* number of score reads and resolutions made (history)
    \* ---- pretty_timedelta (seldump/dumpwriter.py) ----
    td,             \* delta.total_seconds() of the duration handed in
    pretty          \* what pretty_timedelta(delta) returned, once called

wvars == <<out, pos, seekable, isStdout, fileClosed, start_time,
           copy_start_pos, copy_size, copies, calls, began, ended,
           lastCall>>

tvars == <<dump_started, dump_ended, closed, dumped, tcalls, tlog, tlast>>

cvars == <<cfg, isdict, built, query, prev>>

rvars == <<rules, cache, computed, scores, resolved, queries>>

pvars == <<td, pretty>>

vars == <<wvars, tvars, cvars, rvars, pvars>>

(***************************************************************************)
(* Bounds                                                                  *)
(***************************************************************************)
MaxCalls == 3       \* calls made on a writer in one run
MaxTables == 2      \* distinct tables
MaxPayload == 1     \* bytes streamed by one reader.copy
MaxTestCalls == 5   \* calls made on a test writer
MaxObjects == 2     \* distinct (object, action) pairs handed to a writer
MaxKeys == 3        \* keys of a configuration
MaxRules == 2       \* rules of a RuleSet
MaxQueries == 3     \* score reads and resolutions made on a RuleSet
MaxDays == 2        \* whole days of a duration

None == -1

Tables == 1..MaxTables

(***************************************************************************)
(* The sink.  A token is one outfile.write: k is the statement, t the      *)
(* table it names (0: none), n its numeric content (payload or fragment    *)
(* length, byte count, elapsed time).                                      *)
(***************************************************************************)
Tok(k, t, n) == [k |-> k, t |-> t, n |-> n]

\* len(data) of a write: fragments and payloads carry their length, the
\* other statements have the length of their format string around a
\* two-character identifier.
TokLen(tok) ==
    CASE tok.k \in {"import", "payload"} -> tok.n
      [] tok.k = "marker"  -> 3
      [] tok.k = "disable" -> 37
      [] tok.k = "enable"  -> 37
      [] OTHER -> 40

RECURSIVE SeqLen(_)
SeqLen(toks) ==
    IF toks = <<>> THEN 0 ELSE TokLen(Head(toks)) + SeqLen(Tail(toks))

\* The result of a call: the tokens it wrote, the exception it raised
\* ("none": it returned) and the new private fields.
\* copyres: how reader.copy ended, if the call reached it; began, ended,
\* closed, copies: the history the call was made in.
Call(op, t, exc, toks) ==
    [op |-> op, t |-> t, exc |-> exc, cause |-> "none", wrote |-> Len(toks),
     copyres |-> "none", began |-> began, ended |-> ended, closed |-> fileClosed,
     copies |-> copies]

\* raise DumpError("failed to copy from table %s: %s" % (table.escaped, e))
DumpError(t, e, toks) ==
    [Call("dump_table", t, "DumpError", toks) EXCEPT !.cause = e]

\* datetime.utcnow(): the clock advances with every call made on the writer
utcnow == calls

\* DumpWriter.write on an open file
Emit(toks) ==
    /\ out' = out \o toks
    /\ pos' = pos + SeqLen(toks)

InitWriter ==
    /\ out = <<>>
    /\ pos = 0
    /\ seekable \in BOOLEAN
    /\ isStdout \in BOOLEAN
    /\ fileClosed = FALSE
    /\ start_time = None
    /\ copy_start_pos = None
    /\ copy_size = None
    /\ copies = 0
    /\ calls = 0
    /\ began = FALSE
    /\ ended = FALSE
    /\ lastCall = [op |-> "init", t |-> 0, exc |-> "none", cause |-> "none",
                   wrote |-> 0, copyres |-> "none", began |-> FALSE, ended |-> FALSE,
                   closed |-> FALSE, copies |-> 0]

\* DumpWriter.close
close ==
    /\ calls < MaxCalls
    /\ calls' = calls + 1
    /\ fileClosed' = (fileClosed \/ ~isStdout)
    /\ lastCall' = Call("close", 0, "none", <<>>)
    /\ UNCHANGED <<out, pos, seekable, isStdout, start_time, copy_start_pos,
                   copy_size, copies, began, ended>>

\* DumpWriter.begin_dump
begin_dump ==
    /\ calls < MaxCalls
    /\ calls' = calls + 1
    /\ began' = TRUE
    /\ IF fileClosed
       THEN /\ lastCall' = Call("begin_dump", 0, "ValueError", <<>>)
            /\ UNCHANGED <<out, pos, start_time>>
       ELSE LET toks == <<Tok("banner", 0, 0), Tok("url", 0, 0),
                          Tok("started", 0, utcnow), Tok("setauth", 0, 0)>>
            IN /\ Emit(toks)
               /\ start_time' = utcnow
               /\ lastCall' = Call("begin_dump", 0, "none", toks)
    /\ UNCHANGED <<seekable, isStdout, fileClosed, copy_start_pos, copy_size,
                   copies, ended>>

\* DumpWriter.end_dump
end_dump ==
    /\ calls < MaxCalls
    /\ calls' = calls + 1
    /\ ended' = TRUE
    /\ IF fileClosed
       THEN /\ lastCall' = Call("end_dump", 0, "ValueError", <<>>)
            /\ UNCHANGED <<out, pos>>
       ELSE IF start_time = None
       THEN LET toks == <<Tok("analyze", 0, 0)>>
            IN /\ Emit(toks)
               /\ lastCall' = Call("end_dump", 0, "TypeError", toks)
       ELSE LET toks == <<Tok("analyze", 0, 0),
                          Tok("finished", 0, utcnow - start_time),
                          Tok("vim", 0, 0)>>
            IN /\ Emit(toks)
               /\ lastCall' = Call("end_dump", 0, "none", toks)
    /\ UNCHANGED <<seekable, isStdout, fileClosed, start_time, copy_start_pos,
                   copy_size, copies, began>>

\* DumpWriter._begin_table
begin_table(t) == <<Tok("disable", t, 0)>>

end_table_comment_first(t, size) ==
    (IF size # None THEN <<Tok("bytes", t, size)>> ELSE <<>>) \o
    <<Tok("enable", t, 0)>>

\* DumpWriter._end_table, with self._copy_size = size
end_table(t, size) ==
    <<Tok("enable", t, 0)>> \o
    (IF size # None THEN <<Tok("bytes", t, size)>> ELSE <<>>)

begin_copy_unconditional(p) == p

begin_copy_keep_pending(p) ==
    IF seekable /\ copy_start_pos = None THEN p ELSE copy_start_pos

\* DumpWriter._begin_copy at outfile position p: the new _copy_start_pos
begin_copy(p) == IF seekable THEN p ELSE copy_start_pos

\* DumpWriter._end_copy at outfile position p with _copy_start_pos = csp:
\* the new _copy_start_pos and _copy_size
end_copy(p, csp) ==
    IF seekable /\ csp # None
    THEN [start |-> None, size |-> p - csp]
    ELSE [start |-> csp, size |-> copy_size]

\* What _copy_table writes before reader.copy is called
copy_head(imp) == <<Tok("import", 0, imp)>>

\* What _copy_table writes from reader.copy on, when the copy succeeds
copy_body(n) == <<Tok("payload", 0, n), Tok("marker", 0, 0)>>

copy_failed_finally(n) == <<Tok("payload", 0, n), Tok("marker", 0, 0)>>

\* What reader.copy leaves in the sink when it raises after n bytes: the
\* except clause of _copy_table re-raises, its else clause is skipped
copy_failed(n) == <<Tok("payload", 0, n)>>

\* DumpWriter.dump_table.  imp: len(action.import_statement); hasCopy:
\* action.copy_statement is not empty; res: how reader.copy ends; n: the
\* bytes reader.copy streamed into the sink before it ended.
dump_table(t, imp, hasCopy, res, n) ==
    /\ calls < MaxCalls
    /\ calls' = calls + 1
    /\ IF fileClosed
       THEN /\ lastCall' = Call("dump_table", t, "ValueError", <<>>)
            /\ UNCHANGED <<out, pos, copy_start_pos, copy_size, copies>>
       ELSE IF imp = 0 \/ ~hasCopy
       THEN LET toks == begin_table(t)
            IN /\ Emit(toks)
               /\ lastCall' = Call("dump_table", t, "AssertionError", toks)
               /\ UNCHANGED <<copy_start_pos, copy_size, copies>>
       ELSE LET head == begin_table(t) \o copy_head(imp)
                csp  == begin_copy(pos + SeqLen(head))
            IN /\ copies' = copies + 1
               /\ IF res = "ok"
                  THEN LET body == head \o copy_body(n)
                           ec   == end_copy(pos + SeqLen(body), csp)
                           toks == body \o end_table(t, ec.size)
                       IN /\ Emit(toks)
                          /\ copy_start_pos' = ec.start
                          /\ copy_size' = ec.size
                          /\ lastCall' =
                               [Call("dump_table", t, "none", toks)
                                   EXCEPT !.copyres = res]
                  ELSE LET toks == head \o copy_failed(n)
                       IN /\ Emit(toks)
                          /\ copy_start_pos' = csp
                          /\ copy_size' = copy_size
                          /\ lastCall' =
                               IF res = "DatabaseError"
                               THEN [DumpError(t, res, toks)
                                         EXCEPT !.copyres = res]
                               ELSE [Call("dump_table", t, res, toks)
                                         EXCEPT !.copyres = res]
    /\ UNCHANGED <<seekable, isStdout, fileClosed, start_time, began, ended>>

\* DumpWriter.dump_sequence
dump_sequence(val) ==
    /\ calls < MaxCalls
    /\ calls' = calls + 1
    /\ IF fileClosed
       THEN /\ lastCall' = Call("dump_sequence", 0, "ValueError", <<>>)
            /\ UNCHANGED <<out, pos>>
       ELSE LET toks == <<Tok("setval", 0, val)>>
            IN /\ Emit(toks)
               /\ lastCall' = Call("dump_sequence", 0, "none", toks)
    /\ UNCHANGED <<seekable, isStdout, fileClosed, start_time, copy_start_pos,
                   copy_size, copies, began, ended>>

\* DumpWriter.dump_materialized_view
dump_materialized_view(imp) ==
    /\ calls < MaxCalls
    /\ calls' = calls + 1
    /\ IF imp = 0
       THEN /\ lastCall' = Call("dump_materialized_view", 0, "AssertionError", <<>>)
            /\ UNCHANGED <<out, pos>>
       ELSE IF fileClosed
       THEN /\ lastCall' = Call("dump_materialized_view", 0, "ValueError", <<>>)
            /\ UNCHANGED <<out, pos>>
       ELSE LET toks == <<Tok("import", 0, imp)>>
            IN /\ Emit(toks)
               /\ lastCall' = Call("dump_materialized_view", 0, "none", toks)
    /\ UNCHANGED <<seekable, isStdout, fileClosed, start_time, copy_start_pos,
                   copy_size, copies, began, ended>>

CopyResults == {"ok", "DatabaseError", "OtherError"}

\* What reader.copy streamed before it returned or raised: nothing, or
\* MaxPayload bytes
Payloads == {0, MaxPayload}

NextWriter ==
    \/ begin_dump
    \/ end_dump
    \/ \E t \in Tables, res \in CopyResults \ {"OtherError"},
            n \in Payloads :
            dump_table(t, 1, TRUE, res, n)
    \/ \E t \in Tables : dump_table(t, 1, TRUE, "OtherError", MaxPayload)
    \/ \E t \in Tables, a \in {<<0, TRUE>>, <<1, FALSE>>} :
            dump_table(t, a[1], a[2], "ok", 0)
    \/ dump_sequence(1)
    \/ \E imp \in 0..1 : dump_materialized_view(imp)
    \/ close

(***************************************************************************)
(* DumpWriter: the protocol and the table block                            *)
(***************************************************************************)

\* The writes the last call made
LastToks == SubSeq(out, Len(out) - lastCall.wrote + 1, Len(out))

\* C1: a dump_table call made before begin_dump was called, or after
\* end_dump was called, fails and writes nothing to the sink.
C1_DumpTableOutsideSessionFails ==
    (lastCall.op = "dump_table" /\ (~lastCall.began \/ lastCall.ended))
        => (lastCall.exc # "none" /\ lastCall.wrote = 0)

\* C2: a second begin_dump, an end_dump without a begin_dump before it and
\* a second end_dump each fail without writing to the sink.
C2_BeginEndOrderViolationFails ==
    (\/ lastCall.op = "begin_dump" /\ lastCall.began
     \/ lastCall.op = "end_dump" /\ (~lastCall.began \/ lastCall.ended))
        => (lastCall.exc # "none" /\ lastCall.wrote = 0)

\* C3: a close that succeeds follows a begin_dump and an end_dump; a close
\* issued between begin_dump and end_dump is rejected.
C3_CloseOnlyAfterBalancedPair ==
    (lastCall.op = "close" /\ lastCall.exc = "none")
        => (lastCall.began /\ lastCall.ended)

\* C5: a dump_table call that completes has written exactly: disable
\* trigger for the table, import fragment, copy payload, end-of-data
\* marker, enable trigger for the same table, and, iff the sink is
\* seekable, the bytes-written comment; the count is measured from right
\* after the import fragment (it covers the payload and the marker only).
C5_TableBlockInOrder ==
    (lastCall.op = "dump_table" /\ lastCall.exc = "none") =>
        LET w == LastToks
        IN /\ Len(w) = IF seekable THEN 6 ELSE 5
           /\ w[1] = Tok("disable", lastCall.t, 0)
           /\ w[2].k = "import"
           /\ w[3].k = "payload"
           /\ w[4] = Tok("marker", 0, 0)
           /\ w[5] = Tok("enable", lastCall.t, 0)
           /\ seekable => /\ w[6].k = "bytes"
                          /\ w[6].t = lastCall.t
                          /\ w[6].n = TokLen(w[3]) + TokLen(w[4])

\* C5 witness: a table block written on a seekable sink after other output
C5_Witness ==
    /\ lastCall.op = "dump_table" /\ lastCall.exc = "none"
    /\ seekable
    /\ Len(out) > lastCall.wrote
    /\ LastToks[3].n > 0

\* C6: when reader.copy raises a DatabaseError the call raises a DumpError
\* carrying the table and the cause, the sink ends with what was streamed
\* (no marker, no enable trigger, no bytes comment) and reader.copy was
\* called once.
C6_CopyFailureTruncates ==
    (lastCall.op = "dump_table" /\ lastCall.copyres = "DatabaseError") =>
        LET w == LastToks
        IN /\ lastCall.exc = "DumpError"
           /\ lastCall.cause = "DatabaseError"
           /\ lastCall.t \in Tables
           /\ Len(w) = 3
           /\ w[1] = Tok("disable", lastCall.t, 0)
           /\ w[2].k = "import"
           /\ w[3].k = "payload"
           /\ copies = lastCall.copies + 1

\* C6 witness: a copy that failed after streaming some bytes
C6_Witness ==
    /\ lastCall.op = "dump_table" /\ lastCall.copyres = "DatabaseError"
    /\ lastCall.exc = "DumpError"
    /\ LastToks[3].n > 0

\* C14: on a sink that is not seekable no checkpoint and no size is ever
\* recorded, no bytes-written comment is written, and a dump_table whose
\* copy succeeded returns normally, its block ending with the enable-trigger
\* statement.
C14_NoSeekNoSizeReport ==
    ~seekable =>
        /\ copy_start_pos = None
        /\ copy_size = None
        /\ \A i \in 1..Len(out) : out[i].k # "bytes"
        /\ (lastCall.op = "dump_table" /\ lastCall.copyres = "ok") =>
              /\ lastCall.exc = "none"
              /\ out[Len(out)] = Tok("enable", lastCall.t, 0)

\* C14 witness: a second table dumped on a sink that is not seekable
C14_Witness ==
    /\ ~seekable
    /\ lastCall.op = "dump_table" /\ lastCall.exc = "none"
    /\ copies = 2

\* outfile.tell() after the first i writes
PosAfter(i) == SeqLen(SubSeq(out, 1, i))

\* C16: on a seekable sink every bytes-written comment follows the import
\* fragment, payload, marker and enable trigger of its own table, and its
\* count is the sink position after that marker minus the position after
\* that import fragment.
C16_ByteCountOfSameTable ==
    seekable =>
        \A i \in 1..Len(out) :
            out[i].k = "bytes" =>
                /\ i >= 6
                /\ out[i - 1] = Tok("enable", out[i].t, 0)
                /\ out[i - 2].k = "marker"
                /\ out[i - 3].k = "payload"
                /\ out[i - 4].k = "import"
                /\ out[i - 5] = Tok("disable", out[i].t, 0)
                /\ out[i].n = PosAfter(i - 2) - PosAfter(i - 4)

\* C16 witness: a table dumped after a table whose copy failed having
\* streamed a different number of bytes
C16_Witness ==
    /\ seekable
    /\ lastCall.op = "dump_table" /\ lastCall.exc = "none"
    /\ \E i \in 1..Len(out) - 6 :
          /\ out[i].k = "payload"
          /\ out[i + 1].k = "disable"
          /\ out[i].n # out[Len(out) - 3].n

(***************************************************************************)
(* TestWriter (tests/testwriter.py).  A failed assert raises and leaves    *)
(* the fields as they were.                                                *)
(***************************************************************************)
Objects == 1..MaxObjects

TCall(op, obj, ok) ==
    [op |-> op, obj |-> obj, ok |-> ok, started |-> dump_started,
     ended |-> dump_ended, closed |-> closed]

\* The bookkeeping of one call: ok tells whether its asserts passed
TStep(op, obj, ok) ==
    /\ tcalls < MaxTestCalls
    /\ tcalls' = tcalls + 1
    /\ tlast' = TCall(op, obj, ok)
    /\ tlog' = IF ok THEN Append(tlog, [op |-> op, obj |-> obj]) ELSE tlog

\* TestWriter.__init__
InitTest ==
    /\ dump_started = FALSE
    /\ dump_ended = FALSE
    /\ closed = FALSE
    /\ dumped = <<>>
    /\ tcalls = 0
    /\ tlog = <<>>
    /\ tlast = [op |-> "init", obj |-> 0, ok |-> TRUE, started |-> FALSE,
                ended |-> FALSE, closed |-> FALSE]

\* TestWriter.reset
TW_reset ==
    /\ tcalls < MaxTestCalls
    /\ tcalls' = tcalls + 1
    /\ dump_started' = FALSE
    /\ dump_ended' = FALSE
    /\ closed' = FALSE
    /\ dumped' = <<>>
    /\ tlog' = <<>>
    /\ tlast' = TCall("reset", 0, TRUE)

\* TestWriter.begin_dump
TW_begin_dump ==
    LET ok == ~dump_started /\ ~dump_ended /\ ~closed
    IN /\ TStep("begin_dump", 0, ok)
       /\ dump_started' = IF ok THEN TRUE ELSE dump_started
       /\ UNCHANGED <<dump_ended, closed, dumped>>

\* TestWriter.end_dump
TW_end_dump ==
    LET ok == dump_started /\ ~dump_ended /\ ~closed
    IN /\ TStep("end_dump", 0, ok)
       /\ dump_ended' = IF ok THEN TRUE ELSE dump_ended
       /\ UNCHANGED <<dump_started, closed, dumped>>

TW_dump_table_asserts_no_ended == dump_started /\ ~closed

\* The asserts of TestWriter.dump_table
TW_dump_table_asserts == dump_started /\ ~dump_ended /\ ~closed

\* TestWriter.dump_table
TW_dump_table(obj) ==
    LET ok == TW_dump_table_asserts
    IN /\ TStep("dump_table", obj, ok)
       /\ dumped' = IF ok THEN Append(dumped, obj) ELSE dumped
       /\ UNCHANGED <<dump_started, dump_ended, closed>>

\* TestWriter.dump_sequence
TW_dump_sequence(obj) ==
    LET ok == dump_started /\ ~dump_ended /\ ~closed
    IN /\ TStep("dump_sequence", obj, ok)
       /\ dumped' = IF ok THEN Append(dumped, obj) ELSE dumped
       /\ UNCHANGED <<dump_started, dump_ended, closed>>

\* TestWriter.dump_materialized_view
TW_dump_materialized_view(obj) ==
    LET ok == dump_started /\ ~dump_ended /\ ~closed
    IN /\ TStep("dump_materialized_view", obj, ok)
       /\ dumped' = IF ok THEN Append(dumped, obj) ELSE dumped
       /\ UNCHANGED <<dump_started, dump_ended, closed>>

\* TestWriter.close
TW_close ==
    LET ok == dump_started = dump_ended
    IN /\ TStep("close", 0, ok)
       /\ closed' = IF ok THEN TRUE ELSE closed
       /\ UNCHANGED <<dump_started, dump_ended, dumped>>

NextTest ==
    \/ TW_reset
    \/ TW_begin_dump
    \/ TW_end_dump
    \/ \E obj \in Objects : TW_dump_table(obj)
    \/ \E obj \in Objects : TW_dump_sequence(obj)
    \/ \E obj \in Objects : TW_dump_materialized_view(obj)
    \/ TW_close

DumpOps == {"dump_table", "dump_sequence", "dump_materialized_view"}

\* The positions of the calls of tlog whose operation is in ops
LogIdx(ops) == {i \in 1..Len(tlog) : tlog[i].op \in ops}

RECURSIVE DumpedOf(_)
\* The objects of the dump_* calls of a log, in call order
DumpedOf(log) ==
    IF log = <<>> THEN <<>>
    ELSE IF Head(log).op \in DumpOps
         THEN <<Head(log).obj>> \o DumpedOf(Tail(log))
         ELSE DumpedOf(Tail(log))

\* C4: since the last reset, a call succeeded only under its guard;
\* dump_ended implies dump_started; begin_dump and end_dump succeeded at
\* most once each; dumped holds, in call order, the objects of the
\* dump_* calls, each made after begin_dump and before end_dump; nothing
\* but close succeeded after a close.
C4_TestWriterProtocol ==
    /\ (tlast.ok /\ tlast.op = "begin_dump")
          => (~tlast.started /\ ~tlast.ended /\ ~tlast.closed)
    /\ (tlast.ok /\ tlast.op \in DumpOps \cup {"end_dump"})
          => (tlast.started /\ ~tlast.ended /\ ~tlast.closed)
    /\ dump_ended => dump_started
    /\ Cardinality(LogIdx({"begin_dump"})) <= 1
    /\ Cardinality(LogIdx({"end_dump"})) <= 1
    /\ dumped = DumpedOf(tlog)
    /\ \A i \in LogIdx(DumpOps) :
          /\ \E b \in LogIdx({"begin_dump"}) : b < i
          /\ \A e \in LogIdx({"end_dump"}) : i < e
    /\ \A c \in LogIdx({"close"}) :
          \A i \in LogIdx(DumpOps \cup {"begin_dump", "end_dump"}) : i < c

\* C4 witness: a full session, two objects dumped, ended and closed
C4_Witness ==
    /\ closed /\ dump_ended
    /\ Len(dumped) = 2
    /\ dumped[1] # dumped[2]

(***************************************************************************)
(* DumpRule (seldump/dumprule.py)                                          *)
(*                                                                         *)
(* Strings are TLA+ strings; Chars gives the characters of the ones the    *)
(* model uses.  A regular expression is compiled with re.VERBOSE: blanks   *)
(* are dropped, a letter stands for itself and an unbalanced "(" is a      *)
(* re.error.                                                               *)
(***************************************************************************)
Chars(str) ==
    CASE str = "orders" -> <<"o", "r", "d", "e", "r", "s">>
      [] str = "abc"    -> <<"a", "b", "c">>
      [] str = "abcdef" -> <<"a", "b", "c", "d", "e", "f">>
      [] str = "xabc"   -> <<"x", "a", "b", "c">>
      [] str = "a b c"  -> <<"a", " ", "b", " ", "c">>
      [] str = "(abc"   -> <<"(", "a", "b", "c">>
      [] str = "public" -> <<"p", "u", "b", "l", "i", "c">>
      [] str = "pub"    -> <<"p", "u", "b">>
      [] str = "other"  -> <<"o", "t", "h", "e", "r">>
      [] str = ""       -> <<>>

\* The pattern object of a rule: names_re / schemas_re.  some = FALSE is None
NoPattern == [some |-> FALSE, pat |-> <<>>]

RECURSIVE StripBlanks(_)
StripBlanks(cs) ==
    IF cs = <<>> THEN <<>>
    ELSE IF Head(cs) = " " THEN StripBlanks(Tail(cs))
         ELSE <<Head(cs)>> \o StripBlanks(Tail(cs))

\* re.compile(str, re.VERBOSE): ok = FALSE when it raises re.error
re_compile(str) ==
    LET cs == Chars(str)
    IN IF \E i \in 1..Len(cs) : cs[i] = "("
       THEN [ok |-> FALSE, re |-> NoPattern]
       ELSE [ok |-> TRUE, re |-> [some |-> TRUE, pat |-> StripBlanks(cs)]]

re_fullmatch(re, str) ==
    LET cs == Chars(str)
    IN /\ Len(re.pat) = Len(cs)
       /\ \A i \in 1..Len(re.pat) : re.pat[i] = cs[i]

\* Pattern.match(str): a match at the start of the string
re_match(re, str) ==
    LET cs == Chars(str)
    IN /\ Len(re.pat) <= Len(cs)
       /\ \A i \in 1..Len(re.pat) : re.pat[i] = cs[i]

\* DumpRule.__init__
NewRule ==
    [names |-> {}, names_re |-> NoPattern,
     schemas |-> {}, schemas_re |-> NoPattern,
     kinds |-> {}, adjust_score |-> 0,
     action |-> "dump", no_columns |-> FALSE, replace |-> FALSE,
     filter |-> FALSE]

score_weights_swapped(self) ==
    LET s0 == self.adjust_score
        s1 == IF self.names # {} THEN s0 + 10 ELSE s0
        s2 == IF self.names_re.some THEN s1 + 500 ELSE s1
        s3 == IF self.schemas # {} THEN s2 + 100 ELSE s2
        s4 == IF self.schemas_re.some THEN s3 + 50 ELSE s3
        s5 == IF self.kinds # {} THEN s4 + 1000 ELSE s4
    IN s5

score_kinds_assigned(self) ==
    LET s0 == self.adjust_score
        s1 == IF self.names # {} THEN s0 + 1000 ELSE s0
        s2 == IF self.names_re.some THEN s1 + 500 ELSE s1
        s3 == IF self.schemas # {} THEN s2 + 100 ELSE s2
        s4 == IF self.schemas_re.some THEN s3 + 50 ELSE s3
        s5 == IF self.kinds # {} THEN 10 ELSE s4
    IN s5

score_pattern_weights_swapped(self) ==
    LET s0 == self.adjust_score
        s1 == IF self.names # {} THEN s0 + 1000 ELSE s0
        s2 == IF self.names_re.some THEN s1 + 50 ELSE s1
        s3 == IF self.schemas # {} THEN s2 + 100 ELSE s2
        s4 == IF self.schemas_re.some THEN s3 + 500 ELSE s3
        s5 == IF self.kinds # {} THEN s4 + 10 ELSE s4
    IN s5

\* The body of DumpRule.score
score(self) ==
    LET s0 == self.adjust_score
        s1 == IF self.names # {} THEN s0 + 1000 ELSE s0
        s2 == IF self.names_re.some THEN s1 + 500 ELSE s1
        s3 == IF self.schemas # {} THEN s2 + 100 ELSE s2
        s4 == IF self.schemas_re.some THEN s3 + 50 ELSE s3
        s5 == IF self.kinds # {} THEN s4 + 10 ELSE s4
    IN s5

\* DumpRule.match
match(self, obj) ==
    IF self.names # {} /\ obj.name \notin self.names THEN FALSE
    ELSE IF self.names_re.some /\ ~re_match(self.names_re, obj.name)
    THEN FALSE
    ELSE IF self.schemas # {} /\ obj.schema \notin self.schemas THEN FALSE
    ELSE IF self.schemas_re.some /\ ~re_match(self.schemas_re, obj.schema)
    THEN FALSE
    ELSE IF self.kinds # {} /\ obj.kind \notin self.kinds THEN FALSE
    ELSE TRUE

(***************************************************************************)
(* Configuration values.  t is the Python type of the value: "str",        *)
(* "list" (a list of strings), "list_nonstr" (a list with an element       *)
(* that is not a string), "dict" (strings to strings), "dict_nonstr",      *)
(* "int", "bool", "none".  s holds the string(s), n the number.            *)
(***************************************************************************)
Str(str)  == [t |-> "str", s |-> <<str>>, n |-> 0]
List(strs) == [t |-> "list", s |-> strs, n |-> 0]
Other(t, n) == [t |-> t, s |-> <<>>, n |-> n]

Range(seq) == {seq[i] : i \in 1..Len(seq)}

\* bool(value)
Truthy(v) ==
    CASE v.t = "str" -> v.s[1] # ""
      [] v.t \in {"int", "bool"} -> v.n # 0
      [] v.t = "list" -> v.s # <<>>
      [] v.t = "none" -> FALSE
      [] OTHER -> TRUE

str_not_lowered(v) ==
    IF v.t # "str" THEN "<not an action>" ELSE v.s[1]

\* str(value).lower(), for the values the model uses
str_lower(v) ==
    IF v.t # "str" THEN "<not an action>"
    ELSE CASE v.s[1] = "Skip" -> "skip"
           [] v.s[1] = "DUMP" -> "dump"
           [] v.s[1] = "Error" -> "error"
           [] OTHER -> v.s[1]

\* DumpRule.ACTIONS
Actions == {"dump", "skip", "error"}

\* consts.REVKINDS restricted to consts.DUMPABLE_KINDS: the accepted aliases
DumpableKinds == {"table", "sequence", "materialized view"}

Recognized ==
    {"name", "names", "schema", "schemas", "kind", "kinds", "action",
     "no_columns", "replace", "filter", "skip", "adjust_score"}

\* A configuration maps every key to its value, or to Absent
Absent == Other("absent", 0)

UnknownKeys == {"nmae", "colour"}

AllKeys == Recognized \cup UnknownKeys

\* k in cfg
Has(c, k) == c[k].t # "absent"

\* set(cfg)
KeysOf(c) == {k \in AllKeys : Has(c, k)}

\* The outcome of a step of from_config: exc = "none" and the rule so far,
\* or the exception raised; pos tells whether its message ends with
\* "at <file>:<line>".
Ok(rv) ==
    [exc |-> "none", msg |-> "", pos |-> FALSE, rule |-> rv, warned |-> FALSE]

ConfigError(msg, atpos) ==
    [exc |-> "ConfigError", msg |-> msg, pos |-> atpos, rule |-> NewRule,
     warned |-> FALSE]

\* DumpRule._check_kind
check_kind(v) == v.t = "str" /\ v.s[1] \in DumpableKinds

cfg_names_both_allowed(c, rv) ==
    IF Has(c, "name") /\ c["name"].t # "str"
    THEN ConfigError("'name' should be a string", TRUE)
    ELSE LET rv1 == IF Has(c, "name")
                    THEN [rv EXCEPT !.names = @ \cup {c["name"].s[1]}]
                    ELSE rv
         IN IF ~Has(c, "names") THEN Ok(rv1)
            ELSE IF c["names"].t = "list"
            THEN Ok([rv1 EXCEPT !.names = @ \cup Range(c["names"].s)])
            ELSE IF c["names"].t = "str"
            THEN LET comp == re_compile(c["names"].s[1])
                 IN IF comp.ok THEN Ok([rv1 EXCEPT !.names_re = comp.re])
                    ELSE ConfigError("'names' is not a valid regular expression", TRUE)
            ELSE ConfigError("'names' should be a list of strings or a regular expression", TRUE)

\* from_config: the keys name and names
cfg_names(c, rv) ==
    IF Has(c, "name") /\ Has(c, "names")
    THEN ConfigError("can't specify both 'name' and 'names'", TRUE)
    ELSE IF Has(c, "name") /\ c["name"].t # "str"
    THEN ConfigError("'name' should be a string", TRUE)
    ELSE LET rv1 == IF Has(c, "name")
                    THEN [rv EXCEPT !.names = @ \cup {c["name"].s[1]}]
                    ELSE rv
         IN IF ~Has(c, "names") THEN Ok(rv1)
            ELSE IF c["names"].t = "list"
            THEN Ok([rv1 EXCEPT !.names = @ \cup Range(c["names"].s)])
            ELSE IF c["names"].t = "str"
            THEN LET comp == re_compile(c["names"].s[1])
                 IN IF comp.ok THEN Ok([rv1 EXCEPT !.names_re = comp.re])
                    ELSE ConfigError("'names' is not a valid regular expression", TRUE)
            ELSE ConfigError("'names' should be a list of strings or a regular expression", TRUE)

\* from_config: the keys schema and schemas
cfg_schemas(c, rv) ==
    IF Has(c, "schema") /\ Has(c, "schemas")
    THEN ConfigError("can't specify both 'schema' and 'schemas'", TRUE)
    ELSE IF Has(c, "schema") /\ c["schema"].t # "str"
    THEN ConfigError("'schema' should be a string", TRUE)
    ELSE LET rv1 == IF Has(c, "schema")
                    THEN [rv EXCEPT !.schemas = @ \cup {c["schema"].s[1]}]
                    ELSE rv
         IN IF ~Has(c, "schemas") THEN Ok(rv1)
            ELSE IF c["schemas"].t = "list"
            THEN Ok([rv1 EXCEPT !.schemas = @ \cup Range(c["schemas"].s)])
            ELSE IF c["schemas"].t = "str"
            THEN LET comp == re_compile(c["schemas"].s[1])
                 IN IF comp.ok THEN Ok([rv1 EXCEPT !.schemas_re = comp.re])
                    ELSE ConfigError("'schemas' is not a valid regular expression", TRUE)
            ELSE ConfigError("'schemas' should be a list of strings or a regular expression", TRUE)

\* from_config: the keys kind and kinds
cfg_kinds(c, rv) ==
    IF Has(c, "kind") /\ Has(c, "kinds")
    THEN ConfigError("can't specify both 'kind' and 'kinds'", TRUE)
    ELSE IF Has(c, "kind") /\ ~check_kind(c["kind"])
    THEN ConfigError("bad 'kind'", TRUE)
    ELSE LET rv1 == IF Has(c, "kind")
                    THEN [rv EXCEPT !.kinds = @ \cup {c["kind"].s[1]}]
                    ELSE rv
         IN IF ~Has(c, "kinds") THEN Ok(rv1)
            ELSE IF c["kinds"].t \notin {"list", "list_nonstr"}
            THEN ConfigError("'kinds' must be a list of strings", TRUE)
            ELSE IF \/ c["kinds"].t = "list_nonstr"
                    \/ \E k \in Range(c["kinds"].s) : ~check_kind(Str(k))
            THEN ConfigError("bad 'kind'", TRUE)
            ELSE Ok([rv1 EXCEPT !.kinds = @ \cup Range(c["kinds"].s)])

cfg_action_skip_wins(c, rv) ==
    IF Has(c, "action") /\ str_lower(c["action"]) \notin Actions
    THEN ConfigError("bad 'action'", TRUE)
    ELSE LET rv1 == IF Has(c, "action")
                    THEN [rv EXCEPT !.action = str_lower(c["action"])]
                    ELSE rv
         IN IF ~Has(c, "skip") THEN Ok(rv1)
            ELSE Ok([rv1 EXCEPT !.action =
                        IF Truthy(c["skip"]) THEN "skip" ELSE "dump"])

\* from_config: the keys action and skip
cfg_action(c, rv) ==
    IF Has(c, "action") /\ str_lower(c["action"]) \notin Actions
    THEN ConfigError("bad 'action'", TRUE)
    ELSE LET rv1 == IF Has(c, "action")
                    THEN [rv EXCEPT !.action = str_lower(c["action"])]
                    ELSE rv
         IN IF ~Has(c, "skip") THEN Ok(rv1)
            ELSE IF Has(c, "action")
            THEN ConfigError("can't specify both 'skip' and 'action'", TRUE)
            ELSE Ok([rv1 EXCEPT !.action =
                        IF Truthy(c["skip"]) THEN "skip" ELSE "dump"])

\* from_config: the keys no_columns, replace, filter and adjust_score
cfg_rest(c, rv) ==
    IF Has(c, "no_columns") /\ c["no_columns"].t # "list"
    THEN ConfigError("'no_columns' must be a list of strings", TRUE)
    ELSE IF Has(c, "replace") /\ c["replace"].t # "dict"
    THEN ConfigError("'replace' must be a dictionary of strings", TRUE)
    ELSE IF Has(c, "filter") /\ c["filter"].t # "str"
    THEN ConfigError("'filter' must be a string", TRUE)
    ELSE IF Has(c, "adjust_score") /\ c["adjust_score"].t \notin {"int", "bool"}
    THEN ConfigError("'adjust_score' must be a number", TRUE)
    ELSE Ok([rv EXCEPT
               !.no_columns = IF Has(c, "no_columns") THEN TRUE ELSE @,
               !.replace = IF Has(c, "replace") THEN TRUE ELSE @,
               !.filter = IF Has(c, "filter") THEN TRUE ELSE @,
               !.adjust_score = IF Has(c, "adjust_score")
                                THEN c["adjust_score"].n ELSE @])

cfg_unknown_fatal(c, rv) ==
    IF KeysOf(c) \ Recognized # {}
    THEN ConfigError("unknown config option(s)", TRUE)
    ELSE Ok(rv)

\* from_config: the warning about unknown keys
cfg_unknown(c, rv) ==
    [Ok(rv) EXCEPT !.warned = (KeysOf(c) \ Recognized # {})]

\* DumpRule.from_config.  dict: isinstance(cfg, dict)
from_config(c, dict) ==
    IF ~dict THEN ConfigError("expected config dictionary", FALSE)
    ELSE LET r1 == cfg_names(c, NewRule) IN
    IF r1.exc # "none" THEN r1
    ELSE LET r2 == cfg_schemas(c, r1.rule) IN
    IF r2.exc # "none" THEN r2
    ELSE LET r3 == cfg_kinds(c, r2.rule) IN
    IF r3.exc # "none" THEN r3
    ELSE LET r4 == cfg_action(c, r3.rule) IN
    IF r4.exc # "none" THEN r4
    ELSE LET r5 == cfg_rest(c, r4.rule) IN
    IF r5.exc # "none" THEN r5
    ELSE cfg_unknown(c, r5.rule)

(***************************************************************************)
(* from_config applied to the configurations of at most MaxKeys keys       *)
(***************************************************************************)
\* The values a key is given
ValuesOf(k) ==
    CASE k = "name"    -> {Str("orders"), Other("int", 5)}
      [] k = "names"   -> {List(<<"orders", "abc">>), List(<<>>), Str("abc"),
                           Str("a b c"), Str("(abc"), Other("int", 5)}
      [] k = "schema"  -> {Str("public"), Other("int", 5)}
      [] k = "schemas" -> {List(<<"public">>), Str("pub"),
                           Other("list_nonstr", 0)}
      [] k = "kind"    -> {Str("table"), Str("bogus")}
      [] k = "kinds"   -> {List(<<"table", "sequence">>), List(<<"bogus">>),
                           Str("table")}
      [] k = "action"  -> {Str("skip"), Str("DUMP"), Str("Error"),
                           Str("dep"), Other("int", 5)}
      [] k = "skip"    -> {Other("bool", 1), Other("bool", 0)}
      [] k = "no_columns" -> {List(<<"abc">>), Str("abc")}
      [] k = "replace" -> {Other("dict", 0), Other("dict_nonstr", 0)}
      [] k = "filter"  -> {Str("abc"), Other("int", 5)}
      [] k = "adjust_score" -> {Other("int", 5), Str("abc")}
      [] OTHER -> {Str("orders")}

EmptyCfg == [k \in AllKeys |-> Absent]

\* The catalog objects rules are matched against
DbObjects ==
    [name : {"orders", "abcdef", "xabc"}, schema : {"public", "other"},
     kind : {"table", "sequence"}]

NoObject == [name |-> "", schema |-> "", kind |-> ""]

NotBuilt ==
    [exc |-> "unbuilt", msg |-> "", pos |-> FALSE, rule |-> NewRule,
     warned |-> FALSE]

NoQuery == [op |-> "none", obj |-> NoObject, sc |-> 0, m |-> FALSE]

NoPrev == [b |-> NotBuilt, sc |-> [read |-> FALSE, val |-> 0]]

InitConfig ==
    /\ cfg = EmptyCfg
    /\ isdict = TRUE
    /\ built = NotBuilt
    /\ query = NoQuery
    /\ prev = NoPrev

\* The loader hands over something that is not a dictionary
NotADict ==
    /\ isdict /\ cfg = EmptyCfg /\ built = NotBuilt
    /\ isdict' = FALSE
    /\ UNCHANGED <<cfg, built, query, prev>>

\* The configuration gets one more key
SetKey(k, v) ==
    /\ isdict
    /\ ~Has(cfg, k)
    /\ Cardinality(KeysOf(cfg)) < MaxKeys
    /\ cfg' = [cfg EXCEPT ![k] = v]
    /\ built' = NotBuilt
    /\ query' = NoQuery
    /\ prev' = IF k \notin UnknownKeys THEN NoPrev
               ELSE IF KeysOf(cfg) \cap UnknownKeys # {} THEN prev
               ELSE [b |-> built,
                     sc |-> IF query.op = "score"
                            THEN [read |-> TRUE, val |-> query.sc]
                            ELSE [read |-> FALSE, val |-> 0]]
    /\ UNCHANGED isdict

\* rule = DumpRule.from_config(cfg)
Build ==
    /\ built = NotBuilt
    /\ built' = from_config(cfg, isdict)
    /\ UNCHANGED <<cfg, isdict, query, prev>>

\* rule.score
ReadBuiltScore ==
    /\ built.exc = "none"
    /\ query' = [op |-> "score", obj |-> NoObject, sc |-> score(built.rule),
                 m |-> FALSE]
    /\ UNCHANGED <<cfg, isdict, built, prev>>

\* rule.match(obj)
MatchBuilt(obj) ==
    /\ built.exc = "none"
    /\ query' = [op |-> "match", obj |-> obj, sc |-> 0,
                 m |-> match(built.rule, obj)]
    /\ UNCHANGED <<cfg, isdict, built, prev>>

NextConfig ==
    \/ NotADict
    \/ \E k \in AllKeys : \E v \in ValuesOf(k) : SetKey(k, v)
    \/ Build
    \/ ReadBuiltScore
    \/ \E obj \in DbObjects : MatchBuilt(obj)

\* str starts with the characters pat
StartsWith(str, pat) ==
    /\ Len(pat) <= Len(Chars(str))
    /\ SubSeq(Chars(str), 1, Len(pat)) = pat

\* One dimension of a rule is satisfied by the value x of an object
DimensionOk(exact, re, x) ==
    \/ exact = {} /\ ~re.some
    \/ x \in exact
    \/ re.some /\ StartsWith(x, re.pat)

\* C9: match(obj) is true iff the name dimension, the schema dimension and
\* the kinds are each empty or satisfied (exact membership, or the pattern
\* matching at the start); "abc" matches "abcdef" and not "xabc"; a rule
\* with no constraint matches every object; a rule with kinds only matches
\* exactly the objects of those kinds.
C9_MatchIffEveryDimension ==
    query.op = "match" =>
        LET r == built.rule
            o == query.obj
            unnamed == r.names = {} /\ ~r.names_re.some
                       /\ r.schemas = {} /\ ~r.schemas_re.some
        IN /\ query.m <=>
                (/\ DimensionOk(r.names, r.names_re, o.name)
                 /\ DimensionOk(r.schemas, r.schemas_re, o.schema)
                 /\ (r.kinds = {} \/ o.kind \in r.kinds))
           /\ (cfg["names"] = Str("abc") /\ KeysOf(cfg) = {"names"})
                => /\ o.name = "abcdef" => query.m
                   /\ o.name = "xabc" => ~query.m
           /\ (unnamed /\ r.kinds = {}) => query.m
           /\ (unnamed /\ r.kinds # {}) => (query.m <=> o.kind \in r.kinds)

\* C9 witness: a name pattern matched at the start of a longer name
C9_Witness ==
    /\ query.op = "match"
    /\ built.rule.names_re.some
    /\ query.obj.name = "abcdef"
    /\ query.m

\* The configuration holds both keys of a mutually exclusive pair
HasExclusivePair(c) ==
    \/ Has(c, "name") /\ Has(c, "names")
    \/ Has(c, "schema") /\ Has(c, "schemas")
    \/ Has(c, "kind") /\ Has(c, "kinds")
    \/ Has(c, "skip") /\ Has(c, "action")

\* C10: from_config raises a ConfigError, and returns no rule, whenever cfg
\* holds both keys of one of the pairs (name, names), (schema, schemas),
\* (kind, kinds), (skip, action).
C10_ExclusivePairsRaise ==
    (built.exc # "unbuilt" /\ HasExclusivePair(cfg))
        => built.exc = "ConfigError"

\* C10 witness: skip next to a valid action and one more key
C10_Witness ==
    /\ built.exc = "ConfigError"
    /\ Has(cfg, "skip") /\ cfg["action"] = Str("skip")
    /\ Cardinality(KeysOf(cfg)) = 3

\* C11: every ConfigError raised by from_config, a configuration that is
\* not a dictionary included, has a message holding the file:line position.
C11_ConfigErrorCarriesPosition ==
    built.exc = "ConfigError" => built.pos

ActionNamed(v) ==
    CASE v = Str("skip")  -> "skip"
      [] v = Str("DUMP")  -> "dump"
      [] v = Str("Error") -> "error"
      [] OTHER -> ""

\* C13: a returned rule has action dump, skip or error; an `action` value is
\* rejected as a bad action iff it is none of the three in any letter case,
\* and is stored in lower case; `skip` alone gives skip when true and dump
\* when false; with neither key the action is dump.
C13_ActionOneOfThree ==
    built.exc # "unbuilt" =>
        /\ built.exc = "none" => built.rule.action \in {"dump", "skip", "error"}
        /\ Has(cfg, "action") =>
              /\ built.exc = "none" =>
                    built.rule.action = ActionNamed(cfg["action"])
              /\ ActionNamed(cfg["action"]) = "" => built.exc = "ConfigError"
              /\ built.msg = "bad 'action'" => ActionNamed(cfg["action"]) = ""
        /\ (built.exc = "none" /\ Has(cfg, "skip")) =>
              built.rule.action =
                 IF cfg["skip"] = Other("bool", 1) THEN "skip" ELSE "dump"
        /\ (built.exc = "none" /\ ~Has(cfg, "skip") /\ ~Has(cfg, "action"))
              => built.rule.action = "dump"

\* C13 witness: an upper-case action accepted and stored in lower case
C13_Witness ==
    /\ built.exc = "none"
    /\ cfg["action"] = Str("DUMP")
    /\ built.rule.action = "dump"
    /\ Cardinality(KeysOf(cfg)) > 1

\* The state of a match dimension: exact set and pattern object
DimensionStates(exact, re) ==
    {st \in {"empty", "exact-set", "pattern"} :
        \/ st = "empty" /\ exact = {} /\ ~re.some
        \/ st = "exact-set" /\ exact # {}
        \/ st = "pattern" /\ re.some}

\* C15: in every rule from_config returns, the names dimension and the
\* schemas dimension are each in exactly one of the states empty, exact set,
\* pattern: never a non-empty set together with a pattern.
C15_ExactSetXorPattern ==
    built.exc = "none" =>
        /\ Cardinality(DimensionStates(built.rule.names,
                                       built.rule.names_re)) = 1
        /\ Cardinality(DimensionStates(built.rule.schemas,
                                       built.rule.schemas_re)) = 1

\* C15 witness: a rule with a name pattern and an exact schema
C15_Witness ==
    /\ built.exc = "none"
    /\ built.rule.names_re.some /\ built.rule.names = {}
    /\ built.rule.schemas # {} /\ ~built.rule.schemas_re.some

(***************************************************************************)
(* A RuleSet: rules built by from_config, their scores read through the    *)
(* cache of the property, and objects resolved against them                *)
(***************************************************************************)
\* The configuration holding the given <<key, value>> pairs
CfgOf(pairs) ==
    [k \in AllKeys |->
        IF \E kv \in pairs : kv[1] = k
        THEN (CHOOSE kv \in pairs : kv[1] = k)[2]
        ELSE Absent]

\* The rule configurations a RuleSet is made of
RuleConfigs ==
    {CfgOf({}),
     CfgOf({<<"kind", Str("table")>>, <<"action", Str("skip")>>}),
     CfgOf({<<"name", Str("orders")>>, <<"action", Str("dump")>>}),
     CfgOf({<<"name", Str("orders")>>, <<"kind", Str("table")>>}),
     CfgOf({<<"schemas", Str("pub")>>, <<"adjust_score", Other("int", 5)>>}),
     CfgOf({<<"names", Str("abc")>>, <<"schema", Str("public")>>,
            <<"kinds", List(<<"table", "sequence">>)>>,
            <<"skip", Other("bool", 1)>>})}

NoCache == [key |-> 0, val |-> 0]

Unread == [read |-> FALSE, val |-> 0]

NotResolved == [obj |-> NoObject, rule |-> 0, action |-> "none"]

InitRules ==
    /\ rules = <<>>
    /\ cache = NoCache
    /\ computed = <<>>
    /\ scores = <<>>
    /\ resolved = NotResolved
    /\ queries = 0

\* The RuleSet gets the rule of one more configuration entry
AddRule(c) ==
    /\ Len(rules) < MaxRules
    /\ queries = 0
    /\ from_config(c, TRUE).exc = "none"
    /\ rules' = Append(rules, from_config(c, TRUE).rule)
    /\ computed' = Append(computed, 0)
    /\ scores' = Append(scores, Unread)
    /\ UNCHANGED <<cache, resolved, queries>>

\* One read of rules[i].score in the state st = [cache, computed, scores]:
\* lru_cache(maxsize=1) keeps the result of the last call of the body, keyed
\* by the rule it was called on
read_score(st, i) ==
    IF st.cache.key = i
    THEN [st EXCEPT !.scores[i] = [read |-> TRUE, val |-> st.cache.val]]
    ELSE LET v == score(rules[i])
         IN [cache |-> [key |-> i, val |-> v],
             computed |-> [st.computed EXCEPT ![i] = @ + 1],
             scores |-> [st.scores EXCEPT ![i] = [read |-> TRUE, val |-> v]]]

\* rules[i].score
ReadScore(i) ==
    /\ queries < MaxQueries
    /\ queries' = queries + 1
    /\ LET st == read_score([cache |-> cache, computed |-> computed,
                             scores |-> scores], i)
       IN /\ cache' = st.cache
          /\ computed' = st.computed
          /\ scores' = st.scores
    /\ UNCHANGED <<rules, resolved>>

RECURSIVE read_scores(_, _)
\* The scores of the rules idx (a sequence of positions) read in turn
read_scores(st, idx) ==
    IF idx = <<>> THEN st
    ELSE read_scores(read_score(st, Head(idx)), Tail(idx))

\* The positions of the rules matching obj, in declaration order
matching(obj) ==
    SelectSeq([i \in 1..Len(rules) |-> i], LAMBDA i : match(rules[i], obj))

\* The rule governing an object, given the scores read: the matching rule of
\* highest score, the earliest declared among equals; 0 if none matches
winner(idx, sc) ==
    IF idx = <<>> THEN 0
    ELSE CHOOSE i \in Range(idx) :
            \A j \in Range(idx) :
                \/ sc[i].val > sc[j].val
                \/ sc[i].val = sc[j].val /\ i <= j

\* The resolver: the rule and action governing obj
Resolve(obj) ==
    /\ queries < MaxQueries
    /\ queries' = queries + 1
    /\ rules # <<>>
    /\ LET idx == matching(obj)
           st == read_scores([cache |-> cache, computed |-> computed,
                              scores |-> scores], idx)
           w == winner(idx, st.scores)
       IN /\ cache' = st.cache
          /\ computed' = st.computed
          /\ scores' = st.scores
          /\ resolved' = [obj |-> obj, rule |-> w,
                          action |-> IF w = 0 THEN "none" ELSE rules[w].action]
    /\ UNCHANGED rules

NextRules ==
    \/ \E c \in RuleConfigs : AddRule(c)
    \/ \E i \in 1..Len(rules) : ReadScore(i)
    \/ \E obj \in DbObjects : Resolve(obj)

\* The RuleSet [{kind: table, action: skip}, {name: "orders", action: dump}]
OrdersRuleSet ==
    << [NewRule EXCEPT !.kinds = {"table"}, !.action = "skip"],
       [NewRule EXCEPT !.names = {"orders"}, !.action = "dump"] >>

\* C7: with the RuleSet [{kind: table, action: skip}, {name: "orders",
\* action: dump}] a table named "orders" resolves to dump and every other
\* table, whatever its schema, to skip.
C7_OrdersDumpedOtherTablesSkipped ==
    (rules = OrdersRuleSet /\ resolved.obj.kind = "table")
        => resolved.action =
              IF resolved.obj.name = "orders" THEN "dump" ELSE "skip"

\* C7 witness: the table "orders" resolved by the exact-name rule
C7_Witness ==
    /\ rules = OrdersRuleSet
    /\ resolved.obj.kind = "table" /\ resolved.obj.name = "orders"
    /\ resolved.rule = 2
    /\ resolved.action = "dump"

Bonus(b, n) == IF b THEN n ELSE 0

\* The score formula
ScoreFormula(r) ==
    r.adjust_score + Bonus(r.names # {}, 1000) + Bonus(r.names_re.some, 500)
    + Bonus(r.schemas # {}, 100) + Bonus(r.schemas_re.some, 50)
    + Bonus(r.kinds # {}, 10)

\* C8: every score read is adjust_score + 1000 (exact names) + 500 (name
\* pattern) + 100 (exact schemas) + 50 (schema pattern) + 10 (kinds); the
\* score of an unconstrained rule given exact names is 1000 more, and with
\* kinds on top 10 more.
C8_ScoreFormulaAdditive ==
    /\ \A i \in 1..Len(rules) :
          scores[i].read => scores[i].val = ScoreFormula(rules[i])
    /\ \A i, j \in 1..Len(rules) :
          (scores[i].read /\ scores[j].read) =>
             /\ (/\ rules[i] = [NewRule EXCEPT !.action = rules[i].action]
                 /\ rules[j] = [rules[i] EXCEPT !.names = rules[j].names]
                 /\ rules[j].names # {})
                   => scores[j].val = scores[i].val + 1000
             /\ (/\ rules[i].kinds = {}
                 /\ rules[j] = [rules[i] EXCEPT !.kinds = rules[j].kinds]
                 /\ rules[j].kinds # {})
                   => scores[j].val = scores[i].val + 10

\* C8 witness: the scores of an unconstrained rule and of the same rule
\* with an exact name were both read
C8_Witness ==
    \E i, j \in 1..Len(rules) :
        /\ scores[i].read /\ scores[j].read
        /\ rules[i] = NewRule
        /\ rules[j] = [NewRule EXCEPT !.names = {"orders"}]
        /\ scores[j].val = scores[i].val + 1000

(***************************************************************************)
(* Score reads on rules of every specificity: a RuleSet whose rules take   *)
(* each combination of name, schema and kind constraint                    *)
(***************************************************************************)
NameChoices ==
    {{}, {<<"name", Str("orders")>>}, {<<"names", Str("abc")>>}}

SchemaChoices ==
    {{}, {<<"schema", Str("public")>>}, {<<"schemas", Str("pub")>>}}

KindChoices == {{}, {<<"kind", Str("table")>>}}

SpecificityConfigs ==
    {CfgOf(n \cup s \cup k) :
        n \in NameChoices, s \in SchemaChoices, k \in KindChoices}

NextScores ==
    \/ \E c \in SpecificityConfigs : AddRule(c)
    \/ \E i \in 1..Len(rules) : ReadScore(i)

\* How specific a dimension is: exact set 2, pattern 1, unconstrained 0
DimensionRank(exact, re) ==
    IF exact # {} THEN 2 ELSE IF re.some THEN 1 ELSE 0

NameRank(r) == DimensionRank(r.names, r.names_re)

SchemaRank(r) == DimensionRank(r.schemas, r.schemas_re)

\* a is more specific than b: by name constraint first, then by schema
\* constraint, then by having kinds
MoreSpecific(a, b) ==
    \/ NameRank(a) > NameRank(b)
    \/ NameRank(a) = NameRank(b) /\ SchemaRank(a) > SchemaRank(b)
    \/ /\ NameRank(a) = NameRank(b) /\ SchemaRank(a) = SchemaRank(b)
       /\ a.kinds # {} /\ b.kinds = {}

\* C18: among rules built by from_config with adjust_score 0, the more
\* specific rule (name constraint first: exact over pattern over none; then
\* schema constraint likewise; then kinds) has the strictly higher score.
C18_ScoreRanksBySpecificity ==
    \A i, j \in 1..Len(rules) :
        (/\ scores[i].read /\ scores[j].read
         /\ rules[i].adjust_score = 0 /\ rules[j].adjust_score = 0
         /\ MoreSpecific(rules[i], rules[j]))
            => scores[i].val > scores[j].val

\* C18 witness: a rule with only a name pattern read against a rule with
\* an exact schema and kinds but no name constraint
C18_Witness ==
    \E i, j \in 1..Len(rules) :
        /\ scores[i].read /\ scores[j].read
        /\ NameRank(rules[i]) = 1 /\ SchemaRank(rules[i]) = 0
        /\ rules[i].kinds = {}
        /\ NameRank(rules[j]) = 0 /\ SchemaRank(rules[j]) = 2
        /\ rules[j].kinds # {}
        /\ scores[i].val > scores[j].val

\* C17: the body of score runs at most once per rule, whatever the order
\* of the reads, and every read returns the value of the score formula.
C17_ScoreComputedOnce ==
    \A i \in 1..Len(rules) :
        /\ computed[i] <= 1
        /\ scores[i].read => scores[i].val = ScoreFormula(rules[i])

(***************************************************************************)
(* pretty_timedelta (seldump/dumpwriter.py): the elapsed time of a dump as *)
(* text.  Text is a sequence of characters.                                *)
(***************************************************************************)
DigitChar == <<"0", "1", "2", "3", "4", "5", "6", "7", "8", "9">>

\* "%.0f" % n for a whole number n >= 0: its decimal digits
RECURSIVE format_0f(_)
format_0f(n) ==
    IF n < 10 THEN <<DigitChar[n + 1]>>
    ELSE format_0f(n \div 10) \o <<DigitChar[(n % 10) + 1]>>

\* "%.0f%s" % p for a pair p = (count, unit)
format_part(p) == format_0f(p[1]) \o <<p[2]>>

\* divmod(a, b) for a >= 0 and b > 0
divmod(a, b) == <<a \div b, a % b>>

\* Drops every component that is zero, wherever it stands
RECURSIVE drop_all_zeros(_)
drop_all_zeros(parts) ==
    IF parts = <<>> THEN <<>>
    ELSE IF parts[1][1] = 0 THEN drop_all_zeros(Tail(parts))
    ELSE <<parts[1]>> \o drop_all_zeros(Tail(parts))

\* while parts and parts[0][0] == 0: del parts[0]
RECURSIVE drop_leading_zeros(_)
drop_leading_zeros(parts) ==
    IF parts # <<>> /\ parts[1][1] = 0
    THEN drop_leading_zeros(Tail(parts))
    ELSE parts

\* " ".join(strs)
RECURSIVE join_spaces(_)
join_spaces(strs) ==
    IF strs = <<>> THEN <<>>
    ELSE IF Len(strs) = 1 THEN strs[1]
    ELSE strs[1] \o <<" ">> \o join_spaces(Tail(strs))

\* pretty_timedelta(delta), given delta.total_seconds()
pretty_timedelta(total_seconds) ==
    LET magnitude == IF total_seconds < 0 THEN -total_seconds
                     ELSE total_seconds
        rem_secs == divmod(magnitude, 60)
        rem_mins == divmod(rem_secs[1], 60)
        days_hours == divmod(rem_mins[1], 24)
        parts == << <<days_hours[1], "d">>, <<days_hours[2], "h">>,
                    <<rem_mins[2], "m">>, <<rem_secs[2], "s">> >>
        kept == drop_leading_zeros(parts)
        sign == IF total_seconds < 0 THEN <<"-">> ELSE <<>>
    IN sign \o join_spaces([i \in 1..Len(kept) |-> format_part(kept[i])])

\* Whole-second durations, of either sign, with every mix of zero and
\* non-zero components
Durations ==
    {sg * (((d * 24 + h) * 60 + m) * 60 + s) :
        sg \in {-1, 1}, d \in 0..MaxDays, h \in {0, 1, 23},
        m \in {0, 1, 30, 59}, s \in {0, 1, 30, 59}}

NotCalled == [done |-> FALSE, text |-> <<>>]

InitTime == td = 0 /\ pretty = NotCalled

\* elapsed = pretty_timedelta(delta)
FormatElapsed ==
    /\ ~pretty.done
    /\ pretty' = [done |-> TRUE, text |-> pretty_timedelta(td)]
    /\ UNCHANGED td

NextTime == FormatElapsed

\* The text the claim describes for a duration of x whole seconds
Magnitude(x) == IF x < 0 THEN -x ELSE x

Components(x) ==
    LET a == Magnitude(x)
    IN <<a \div 86400, (a \div 3600) % 24, (a \div 60) % 60, a % 60>>

UnitLetters == <<"d", "h", "m", "s">>

\* Index of the first non-zero component, 5 when all are zero
FirstNonZero(cs) ==
    IF \A i \in 1..4 : cs[i] = 0 THEN 5
    ELSE CHOOSE i \in 1..4 : cs[i] # 0 /\ \A j \in 1..(i - 1) : cs[j] = 0

RECURSIVE Pow10(_)
Pow10(k) == IF k = 0 THEN 1 ELSE 10 * Pow10(k - 1)

NumDigits(n) == CHOOSE k \in 1..9 : Pow10(k - 1) <= n /\ n < Pow10(k)

Decimal(n) ==
    IF n = 0 THEN <<"0">>
    ELSE [k \in 1..NumDigits(n) |->
            DigitChar[((n \div Pow10(NumDigits(n) - k)) % 10) + 1]]

RECURSIVE Rendered(_, _)
Rendered(cs, i) ==
    IF i > 4 THEN <<>>
    ELSE Decimal(cs[i]) \o <<UnitLetters[i]>>
         \o (IF i < 4 THEN <<" ">> ELSE <<>>) \o Rendered(cs, i + 1)

ExpectedText(x) ==
    (IF x < 0 THEN <<"-">> ELSE <<>>)
    \o Rendered(Components(x), FirstNonZero(Components(x)))

\* C19: for a whole-second duration pretty_timedelta returns the days,
\* hours, minutes and seconds of |duration| from the first non-zero
\* component on (later zero components kept), each as "<count><letter>",
\* separated by single spaces, with "-" in front iff the duration is
\* negative; zero gives "" and 90 seconds gives "1m 30s".
C19_PrettyTimedelta ==
    pretty.done =>
        /\ pretty.text = ExpectedText(td)
        /\ td = 0 => pretty.text = <<>>
        /\ td = 90 => pretty.text = <<"1", "m", " ", "3", "0", "s">>
        /\ td < 0 <=> (pretty.text # <<>> /\ pretty.text[1] = "-")

\* C19 witness: one hour exactly keeps its zero minutes and seconds
C19_Witness ==
    /\ pretty.done /\ td = 3600
    /\ pretty.text = <<"1", "h", " ", "0", "m", " ", "0", "s">>

\* Each specification starts the components it does not drive in their
\* constructed state and leaves them alone.
WriterIdle == InitWriter /\ seekable /\ ~isStdout

Init == InitWriter /\ InitTest /\ InitConfig /\ InitRules /\ InitTime

Next == NextWriter /\ UNCHANGED <<tvars, cvars, rvars, pvars>>

Spec == Init /\ [][Next]_vars

InitT == WriterIdle /\ InitTest /\ InitConfig /\ InitRules /\ InitTime

NextT == NextTest /\ UNCHANGED <<wvars, cvars, rvars, pvars>>

SpecTest == InitT /\ [][NextT]_vars

InitC == WriterIdle /\ InitTest /\ InitConfig /\ InitRules /\ InitTime

NextC == NextConfig /\ UNCHANGED <<wvars, tvars, rvars, pvars>>

SpecConfig == InitC /\ [][NextC]_vars

InitR == WriterIdle /\ InitTest /\ InitConfig /\ InitRules /\ InitTime

NextR == NextRules /\ UNCHANGED <<wvars, tvars, cvars, pvars>>

SpecRules == InitR /\ [][NextR]_vars

InitS == WriterIdle /\ InitTest /\ InitConfig /\ InitRules /\ InitTime

NextS == NextScores /\ UNCHANGED <<wvars, tvars, cvars, pvars>>

SpecScores == InitS /\ [][NextS]_vars

InitP ==
    /\ WriterIdle /\ InitTest /\ InitConfig /\ InitRules
    /\ td \in Durations /\ pretty = NotCalled

NextP == NextTime /\ UNCHANGED <<wvars, tvars, cvars, rvars>>

SpecTime == InitP /\ [][NextP]_vars

====
